---------------------------- MODULE Spec2Model ----------------------------
(***************************************************************************)
(* ScholaRoute: the allocation engine (schola.py) and the request handlers *)
(* that drive it (api.py).                                                 *)
(*                                                                         *)
(* Strings are TLA+ strings, handled character by character.  A float is   *)
(* an integer count of thousandths (85.0 is 85000), so that rounding to    *)
(* two decimals is a real operation.  Python's None is the reserved string *)
(* None, which no input contains.  A dict is either a function (looked up  *)
(* with Get) or, where the code iterates over it, a sequence of            *)
(* <<key, value>> pairs with distinct keys in insertion order.             *)
(***************************************************************************)
EXTENDS Integers, Sequences, FiniteSets, TLC

VARIABLES
    pc,               \* position of the call under study: "call" or "done"
    scores,           \* Dict[str, float]: a student's subject scores
    course,           \* a catalog course: name, min_scores, max_scores
    student,          \* the student dict handed to best_fit
    choices,          \* List[str]: the choices handed to best_fit
    universities,     \* AllocationSession.universities
    overrides,        \* AllocationSession.overrides
    row,              \* one roster row (column |-> cell) inside allocate's loop
    result,           \* what the call under study returned
    session,          \* app.state.session
    last_excel_path,  \* app.state.last_excel_path
    disk_excel,       \* contents of data/uploaded_students.xlsx
    response          \* the last HTTP response and what the handler's allocate call did

vars == <<pc, scores, course, student, choices, universities, overrides, row,
          result, session, last_excel_path, disk_excel, response>>

\* The value of a variable a specification does not use.
Idle == "-"

(***************************************************************************)
(* Python values and string methods                                        *)
(***************************************************************************)
None == "<None>"

\* `v or d`: None and the empty string are falsy.
Or(v, d) == IF v = None \/ v = "" THEN d ELSE v

\* d.get(k, default) on a dict modelled as a function.
Get(d, k, default) == IF k \in DOMAIN d THEN d[k] ELSE default

Whitespace == {" ", "\t"}
UpperCase == "ABCDEFGHIJKLMNOPQRSTUVWXYZ"
LowerCase == "abcdefghijklmnopqrstuvwxyz"
Digits == "0123456789"

RECURSIVE LStrip(_)
LStrip(s) == IF Len(s) > 0 /\ Head(s) \in Whitespace THEN LStrip(Tail(s)) ELSE s

RECURSIVE RStrip(_)
RStrip(s) ==
    IF Len(s) > 0 /\ SubSeq(s, Len(s), Len(s)) \in Whitespace
    THEN RStrip(SubSeq(s, 1, Len(s) - 1))
    ELSE s

\* str.strip()
Strip(s) == RStrip(LStrip(s))

UpperSet == {SubSeq(UpperCase, i, i) : i \in 1..26}
LowerOf == [c \in UpperSet |->
               SubSeq(LowerCase, CHOOSE j \in 1..26 : SubSeq(UpperCase, j, j) = c,
                                 CHOOSE j \in 1..26 : SubSeq(UpperCase, j, j) = c)]
LowerChar(c) == IF c \in UpperSet THEN LowerOf[c] ELSE c

\* str.lower()
RECURSIVE ToLower(_)
ToLower(s) == IF s = "" THEN "" ELSE LowerChar(Head(s)) \o ToLower(Tail(s))

\* def _normalize_name(value): return (value or "").strip()
_normalize_name(value) == Strip(Or(value, ""))

\* def _norm_choice(value): v = (value or "").strip(); return v if v else None
_norm_choice(value) == LET v == Strip(Or(value, "")) IN IF v # "" THEN v ELSE None

\* def _lower(s): return (s or "").strip().lower()
_lower(s) == ToLower(Strip(Or(s, "")))

(***************************************************************************)
(* Configuration                                                           *)
(***************************************************************************)
SUBJECTS == <<"English", "Mathematics", "Additional Math", "Physics", "Chemistry",
              "Biology", "History", "Geography", "Civics", "ICT", "Accounting",
              "Religion", "Commerce">>

\* round(total, 2) on thousandths: the nearest multiple of 10, a tie going to the
\* even hundredth.
Round2(x) ==
    LET q == x \div 10
        r == x % 10
    IN  IF r < 5 THEN q * 10
        ELSE IF r > 5 THEN (q + 1) * 10
        ELSE IF q % 2 = 0 THEN q * 10 ELSE (q + 1) * 10

RECURSIVE SumFrom(_, _)
SumFrom(sc, i) ==
    IF i > Len(SUBJECTS) THEN 0
    ELSE Get(sc, SUBJECTS[i], 0) + SumFrom(sc, i + 1)

\* A variant that forgets to round.
aggregate_unrounded(sc) == SumFrom(sc, 1)

\* def _aggregate(scores): round(sum(float(scores.get(s, 0.0) or 0.0) for s in SUBJECTS), 2)
_aggregate(sc) == Round2(SumFrom(sc, 1))

(***************************************************************************)
(* Roster cells and rows                                                   *)
(***************************************************************************)
\* A cell of the frame pandas reads: NaN (an empty cell), a text or a number.
NaN == [t |-> "nan", s |-> "", n |-> 0]
Str(x) == [t |-> "str", s |-> x, n |-> 0]
Num(v) == [t |-> "num", s |-> "", n |-> v]

\* pd.notna(val)
notna(val) == val.t # "nan"

DigitSet == {SubSeq(Digits, i, i) : i \in 1..10}
DigitValue == [c \in DigitSet |-> (CHOOSE j \in 1..10 : SubSeq(Digits, j, j) = c) - 1]
IsDigits(s) == \A i \in 1..Len(s) : SubSeq(s, i, i) \in DigitSet

RECURSIVE IntValue(_)
IntValue(s) ==
    IF s = "" THEN 0
    ELSE 10 * IntValue(SubSeq(s, 1, Len(s) - 1)) + DigitValue[SubSeq(s, Len(s), Len(s))]

RECURSIVE FormatInt(_)
FormatInt(k) ==
    IF k < 10 THEN SubSeq(Digits, k + 1, k + 1)
    ELSE FormatInt(k \div 10) \o SubSeq(Digits, (k % 10) + 1, (k % 10) + 1)

\* float(text) for a decimal numeral of at most three decimals, surrounding
\* whitespace allowed: [ok |-> TRUE, v |-> thousandths], or ok FALSE where float()
\* raises ValueError.  (Signs, exponents, inf and nan are not in the inputs.)
ParseFloat(text) ==
    LET t == Strip(text)
        dots == {i \in 1..Len(t) : SubSeq(t, i, i) = "."}
        bad == [ok |-> FALSE, v |-> 0]
    IN  IF dots = {}
        THEN IF t # "" /\ IsDigits(t) THEN [ok |-> TRUE, v |-> 1000 * IntValue(t)] ELSE bad
        ELSE IF Cardinality(dots) > 1 THEN bad
        ELSE LET k == CHOOSE i \in dots : TRUE
                 ip == SubSeq(t, 1, k - 1)
                 fp == SubSeq(t, k + 1, Len(t))
                 pad == SubSeq("000", 1, 3 - Len(fp))
             IN  IF IsDigits(ip) /\ IsDigits(fp) /\ Len(ip) + Len(fp) > 0 /\ Len(fp) <= 3
                 THEN [ok |-> TRUE, v |-> 1000 * IntValue(ip) + IntValue(fp \o pad)]
                 ELSE bad

\* float(val), as [ok, v]
Float(val) == IF val.t = "num" THEN [ok |-> TRUE, v |-> val.n] ELSE ParseFloat(val.s)

RECURSIVE StripZeros(_)
StripZeros(s) ==
    IF Len(s) > 1 /\ SubSeq(s, Len(s), Len(s)) = "0"
    THEN StripZeros(SubSeq(s, 1, Len(s) - 1))
    ELSE s

\* str(val): a text is itself, NaN is "nan", a (non-negative) float its shortest
\* decimal numeral: str(85.0) is "85.0", str(0.125) is "0.125".
PyStr(val) ==
    IF val.t = "str" THEN val.s
    ELSE IF val.t = "nan" THEN "nan"
    ELSE LET f == val.n % 1000 IN
         FormatInt(val.n \div 1000) \o "."
            \o StripZeros(FormatInt(f \div 100) \o FormatInt((f \div 10) % 10)
                             \o FormatInt(f % 10))

CHOICE_COLUMNS == <<"Choice 1", "Choice 2", "Choice 3">>
IDENTITY == <<"Student ID", "FirstName", "LastName", "Gender", "Section">>
Range(seq) == {seq[i] : i \in 1..Len(seq)}

\* choices = [_norm_choice(str(row[c])) for c in [...] if c in row and pd.notna(row[c])]
RECURSIVE read_choices(_, _)
read_choices(r, i) ==
    IF i > Len(CHOICE_COLUMNS) THEN <<>>
    ELSE LET c == CHOICE_COLUMNS[i] IN
         IF c \in DOMAIN r /\ notna(r[c])
         THEN <<_norm_choice(PyStr(r[c]))>> \o read_choices(r, i + 1)
         ELSE read_choices(r, i + 1)

\* for c in choices: lc = _lower(c); if lc not in seen: deduped.append(c); seen.add(lc)
RECURSIVE dedupe(_, _, _, _)
dedupe(chs, i, deduped, seen) ==
    IF i > Len(chs) THEN deduped
    ELSE LET lc == _lower(chs[i]) IN
         IF lc \notin seen
         THEN dedupe(chs, i + 1, Append(deduped, chs[i]), seen \cup {lc})
         ELSE dedupe(chs, i + 1, deduped, seen)

_collect_choices(r) == dedupe(read_choices(r, 1), 1, <<>>, {})

\* scores[subj] = float(val) if pd.notna(val) else 0.0, and 0.0 when float() raises
_extract_scores(r) ==
    [subj \in Range(SUBJECTS) |->
        LET val == Get(r, subj, Num(0)) IN
        IF notna(val) THEN (IF Float(val).ok THEN Float(val).v ELSE 0) ELSE 0]

(***************************************************************************)
(* AllocationSession.is_eligible_for_course                                *)
(***************************************************************************)
HasKey(items, k) == \E i \in 1..Len(items) : items[i][1] = k
Lookup(items, k) == items[CHOOSE i \in 1..Len(items) : items[i][1] = k][2]

\* for subj, min_val in min_scores.items(): ... return False
RECURSIVE MinLoop(_, _, _)
MinLoop(sc, items, i) ==
    IF i > Len(items) THEN TRUE
    ELSE IF items[i][1] # "aggregate" /\ Get(sc, items[i][1], 0) < items[i][2] THEN FALSE
    ELSE MinLoop(sc, items, i + 1)

\* for subj, max_val in max_scores.items(): ... return False
RECURSIVE MaxLoop(_, _, _)
MaxLoop(sc, items, i) ==
    IF i > Len(items) THEN TRUE
    ELSE IF Get(sc, items[i][1], 0) > items[i][2] THEN FALSE
    ELSE MaxLoop(sc, items, i + 1)

\* A variant that never reads max_scores.
is_eligible_ignoring_max(sc, c) ==
    LET min_scores == Get(c, "min_scores", <<>>)
    IN  IF HasKey(min_scores, "aggregate") /\ _aggregate(sc) < Lookup(min_scores, "aggregate")
        THEN FALSE
        ELSE MinLoop(sc, min_scores, 1)

is_eligible_for_course(sc, c) ==
    LET min_scores == Get(c, "min_scores", <<>>)
        max_scores == Get(c, "max_scores", <<>>)
    IN  IF HasKey(min_scores, "aggregate") /\ _aggregate(sc) < Lookup(min_scores, "aggregate")
        THEN FALSE
        ELSE IF ~MinLoop(sc, min_scores, 1) THEN FALSE
        ELSE MaxLoop(sc, max_scores, 1)

(***************************************************************************)
(* AllocationSession.best_fit                                              *)
(***************************************************************************)
\* scan_courses(filter_names): the first course of the catalog, universities in
\* order and courses in order within each, that passes the name filter (when
\* filter_names is a non-empty list) and is eligible.  hit is <<>> for None, else
\* <<university, course>>; consulted lists the <<university index, course index>> of
\* every course handed to is_eligible_for_course, in order.
RECURSIVE scan_courses(_, _, _, _, _)
scan_courses(unis, sc, filter_names, u, c) ==
    IF u > Len(unis) THEN [hit |-> <<>>, consulted |-> <<>>]
    ELSE LET courses == Get(unis[u], "courses", <<>>) IN
         IF c > Len(courses) THEN scan_courses(unis, sc, filter_names, u + 1, 1)
         ELSE LET cname == Get(courses[c], "name", "") IN
              IF /\ filter_names # <<>>
                 /\ _lower(cname) \notin
                        {_lower(filter_names[i]) : i \in 1..Len(filter_names)}
              THEN scan_courses(unis, sc, filter_names, u, c + 1)
              ELSE IF is_eligible_for_course(sc, courses[c])
              THEN [hit |-> <<unis[u].name, cname>>, consulted |-> << <<u, c>> >>]
              ELSE LET rest == scan_courses(unis, sc, filter_names, u, c + 1)
                   IN  [hit |-> rest.hit, consulted |-> << <<u, c>> >> \o rest.consulted]

\* for ch in choices: hit = scan_courses([ch]); if hit: return hit
\* then any_hit = scan_courses(None), then the sentinel.
RECURSIVE choice_loop(_, _, _, _)
choice_loop(unis, sc, chs, i) ==
    IF i > Len(chs)
    THEN LET any_hit == scan_courses(unis, sc, <<>>, 1, 1) IN
         IF any_hit.hit # <<>>
         THEN [University |-> any_hit.hit[1], Course |-> any_hit.hit[2],
               consulted |-> any_hit.consulted]
         ELSE [University |-> "Not Allocated", Course |-> "N/A",
               consulted |-> any_hit.consulted]
    ELSE LET scan == scan_courses(unis, sc, <<chs[i]>>, 1, 1) IN
         IF scan.hit # <<>>
         THEN [University |-> scan.hit[1], Course |-> scan.hit[2],
               consulted |-> scan.consulted]
         ELSE LET rest == choice_loop(unis, sc, chs, i + 1)
              IN  [University |-> rest.University, Course |-> rest.Course,
                   consulted |-> scan.consulted \o rest.consulted]

\* A variant that looks for a course before it looks at the overrides.
best_fit_rules_first(unis, ovs, st, sc, chs) ==
    LET sid == _normalize_name(st["Student ID"])
        fit == choice_loop(unis, sc, chs, 1)
    IN  IF fit.University = "Not Allocated" /\ sid \in DOMAIN ovs
        THEN [University |-> _normalize_name(Get(ovs[sid], "University", "Manual Override")),
              Course |-> _normalize_name(Get(ovs[sid], "Course", "Manual Override")),
              consulted |-> fit.consulted]
        ELSE fit

\* A variant whose choice scan accepts the first eligible course of any name.
best_fit_any_name(unis, ovs, st, sc, chs) ==
    LET sid == _normalize_name(st["Student ID"]) IN
    IF sid \in DOMAIN ovs
    THEN [University |-> _normalize_name(Get(ovs[sid], "University", "Manual Override")),
          Course |-> _normalize_name(Get(ovs[sid], "Course", "Manual Override")),
          consulted |-> <<>>]
    ELSE choice_loop(unis, sc, <<>>, 1)

\* A variant that gives up when no choice matches.
best_fit_no_fallback(unis, ovs, st, sc, chs) ==
    LET sid == _normalize_name(st["Student ID"])
        fit == choice_loop(unis, sc, chs, 1)
        named == \E i \in 1..Len(chs) : scan_courses(unis, sc, <<chs[i]>>, 1, 1).hit # <<>>
    IN  IF sid \in DOMAIN ovs
        THEN [University |-> _normalize_name(Get(ovs[sid], "University", "Manual Override")),
              Course |-> _normalize_name(Get(ovs[sid], "Course", "Manual Override")),
              consulted |-> <<>>]
        ELSE IF named THEN fit
        ELSE [University |-> "Not Allocated", Course |-> "N/A", consulted |-> fit.consulted]

\* best_fit on a session whose universities and overrides are unis and ovs.  The
\* result carries, besides the (University, Course) pair, the courses consulted.
best_fit(unis, ovs, st, sc, chs) ==
    LET sid == _normalize_name(st["Student ID"]) IN
    IF sid \in DOMAIN ovs
    THEN [University |-> _normalize_name(Get(ovs[sid], "University", "Manual Override")),
          Course |-> _normalize_name(Get(ovs[sid], "Course", "Manual Override")),
          consulted |-> <<>>]
    ELSE choice_loop(unis, sc, chs, 1)

\* load_universities: the universities of a catalog file that loads, each name
\* trimmed, each course given a trimmed name and both mappings.  A file that does
\* not load (Malformed) makes json.load or the loop raise.
Malformed == [loads |-> FALSE, data |-> <<>>]
Catalog(data) == [loads |-> TRUE, data |-> data]

load_course(c) ==
    [name |-> _normalize_name(Get(c, "name", "")),
     min_scores |-> Get(c, "min_scores", <<>>),
     max_scores |-> Get(c, "max_scores", <<>>)]

load_uni(uni) ==
    IF "courses" \in DOMAIN uni
    THEN [name |-> _normalize_name(Get(uni, "name", "")),
          courses |-> [i \in 1..Len(uni.courses) |-> load_course(uni.courses[i])]]
    ELSE [name |-> _normalize_name(Get(uni, "name", ""))]

load_universities(data) == [i \in 1..Len(data) |-> load_uni(data[i])]

(***************************************************************************)
(* AllocationSession.allocate                                              *)
(***************************************************************************)
COLUMN_ALIASES ==
    [k \in {"student id"} |-> "Student ID"]
    @@ [k \in {"firstname", "first name"} |-> "FirstName"]
    @@ [k \in {"lastname", "last name"} |-> "LastName"]
    @@ [k \in {"gender"} |-> "Gender"]
    @@ [k \in {"section"} |-> "Section"]
    @@ [k \in {"choice 1", "choice1"} |-> "Choice 1"]
    @@ [k \in {"choice 2", "choice2"} |-> "Choice 2"]
    @@ [k \in {"choice 3", "choice3"} |-> "Choice 3"]
    @@ [k \in {"english"} |-> "English"]
    @@ [k \in {"mathematics"} |-> "Mathematics"]
    @@ [k \in {"additional math", "additional mathematics", "add math"} |-> "Additional Math"]
    @@ [k \in {"physics"} |-> "Physics"]
    @@ [k \in {"chemistry"} |-> "Chemistry"]
    @@ [k \in {"biology"} |-> "Biology"]
    @@ [k \in {"history"} |-> "History"]
    @@ [k \in {"geography"} |-> "Geography"]
    @@ [k \in {"civics"} |-> "Civics"]
    @@ [k \in {"ict"} |-> "ICT"]
    @@ [k \in {"accounting"} |-> "Accounting"]
    @@ [k \in {"religion"} |-> "Religion"]
    @@ [k \in {"commerce"} |-> "Commerce"]

\* mapping = {col: COLUMN_ALIASES.get(col.strip().lower(), col) for col in df.columns}
_remap_columns(columns) ==
    [i \in 1..Len(columns) |-> Get(COLUMN_ALIASES, ToLower(Strip(columns[i])), columns[i])]

\* The row of a frame as a mapping from column to cell.
RowDict(columns, cells) ==
    [c \in Range(columns) |-> cells[CHOOSE i \in 1..Len(columns) : columns[i] = c]]

\* df[subj] = 0 for a subject column the frame lacks, df[c] = "" for a choice column.
fill_columns(r) ==
    r @@ [subj \in Range(SUBJECTS) |-> Num(0)] @@ [c \in Range(CHOICE_COLUMNS) |-> Str("")]

\* The body of allocate's loop: one roster row to one allocation row.
alloc_row(unis, ovs, r) ==
    LET st == [k \in Range(IDENTITY) |-> _normalize_name(PyStr(r[k]))]
        sc == _extract_scores(r)
        agg == _aggregate(sc)
        chs == _collect_choices(r)
        fit == best_fit(unis, ovs, st, sc, chs)
    IN  [k \in {"University"} |-> fit.University] @@ [k \in {"Course"} |-> fit.Course]
        @@ [k \in Range(CHOICE_COLUMNS) |->
               LET i == CHOOSE j \in 1..3 : CHOICE_COLUMNS[j] = k
               IN  IF Len(chs) >= i THEN chs[i] ELSE ""]
        @@ [k \in {"Aggregate"} |-> agg]
        @@ sc @@ st

\* A variant that refuses a course already given to an earlier row of the roster.
RECURSIVE allocate_rows_one_seat(_, _, _, _, _)
allocate_rows_one_seat(unis, ovs, columns, rows, i) ==
    IF i > Len(rows) THEN <<>>
    ELSE LET r == alloc_row(unis, ovs, fill_columns(RowDict(columns, rows[i])))
             taken == \E j \in 1..(i - 1) :
                         LET q == alloc_row(unis, ovs, fill_columns(RowDict(columns, rows[j])))
                         IN  q["University"] = r["University"] /\ q["Course"] = r["Course"]
         IN  <<IF taken
               THEN [k \in {"University"} |-> "Not Allocated"] @@ [k \in {"Course"} |-> "N/A"] @@ r
               ELSE r>>
             \o allocate_rows_one_seat(unis, ovs, columns, rows, i + 1)

\* for _, row in df.iterrows(): ... allocations.append({...})
RECURSIVE allocate_rows(_, _, _, _, _)
allocate_rows(unis, ovs, columns, rows, i) ==
    IF i > Len(rows) THEN <<>>
    ELSE <<alloc_row(unis, ovs, fill_columns(RowDict(columns, rows[i])))>>
         \o allocate_rows(unis, ovs, columns, rows, i + 1)

\* A session: universities, allocations_df (a frame of rows, or None), overrides.
NoFrame == [frame |-> FALSE, rows |-> <<>>]
Frame(rows) == [frame |-> TRUE, rows |-> rows]
NewSession == [exists |-> TRUE, universities |-> <<>>, allocations_df |-> NoFrame,
               overrides |-> <<>>]
NoSession == [exists |-> FALSE, universities |-> <<>>, allocations_df |-> NoFrame,
              overrides |-> <<>>]

\* What a call raised: nothing, or an exception with the columns it names.
NoError == [kind |-> "", missing |-> {}]
Error(kind, missing) == [kind |-> kind, missing |-> missing]

\* A workbook on disk: readable with columns and rows of cells, or not a workbook.
Workbook(columns, rows) == [readable |-> TRUE, columns |-> columns, rows |-> rows]
NotAWorkbook == [readable |-> FALSE, columns |-> <<>>, rows |-> <<>>]

\* A variant that stores the (empty) result before it validates the input.
allocate_clearing_first(self, excel, uni_json, ovs) ==
    LET self1 == [self EXCEPT !.overrides = ovs, !.allocations_df = Frame(<<>>)] IN
    IF ~uni_json.loads
    THEN [self |-> self1, raised |-> Error("JSONDecodeError", {}), rows |-> <<>>]
    ELSE LET self2 == [self1 EXCEPT !.universities = load_universities(uni_json.data)] IN
         IF ~excel.readable
         THEN [self |-> self2, raised |-> Error("BadZipFile", {}), rows |-> <<>>]
         ELSE LET columns == _remap_columns(excel.columns)
                  missing_core == {c \in Range(IDENTITY) : c \notin Range(columns)}
              IN  IF missing_core # {}
                  THEN [self |-> self2, raised |-> Error("ValueError", missing_core),
                        rows |-> <<>>]
                  ELSE LET allocations == allocate_rows(self2.universities, self2.overrides,
                                                        columns, excel.rows, 1)
                       IN  [self |-> [self2 EXCEPT !.allocations_df = Frame(allocations)],
                            raised |-> NoError, rows |-> allocations]

\* allocate(excel_path, uni_json_path, overrides) on session self, the two files
\* given by their contents and overrides by a mapping (`overrides or {}` of a
\* mapping is that mapping).  self is the session after the call, raised the
\* exception that left it (NoError for a return), rows the rows returned.
allocate(self, excel, uni_json, ovs) ==
    LET self1 == [self EXCEPT !.overrides = ovs] IN
    IF ~uni_json.loads
    THEN [self |-> self1, raised |-> Error("JSONDecodeError", {}), rows |-> <<>>]
    ELSE LET self2 == [self1 EXCEPT !.universities = load_universities(uni_json.data)] IN
         IF ~excel.readable
         THEN [self |-> self2, raised |-> Error("BadZipFile", {}), rows |-> <<>>]
         ELSE LET columns == _remap_columns(excel.columns)
                  missing_core == {c \in Range(IDENTITY) : c \notin Range(columns)}
              IN  IF missing_core # {}
                  THEN [self |-> self2, raised |-> Error("ValueError", missing_core),
                        rows |-> <<>>]
                  ELSE LET allocations == allocate_rows(self2.universities, self2.overrides,
                                                        columns, excel.rows, 1)
                       IN  [self |-> [self2 EXCEPT !.allocations_df = Frame(allocations)],
                            raised |-> NoError, rows |-> allocations]

(***************************************************************************)
(* Specification: one call of is_eligible_for_course                       *)
(***************************************************************************)
\* The most entries a course's min_scores, and its max_scores, hold.
MaxRules == 2

ScoreValues == {0, 49996, 50000, 85000}
EligSubjects == {"English", "Mathematics"}
\* Score sets, a subject of EligSubjects present or absent.
EligScoreSets == UNION {[D -> ScoreValues] : D \in SUBSET EligSubjects}

\* Mappings as sequences of at most n <<key, value>> pairs with distinct keys.
RuleSeqs(keys, vals, n) ==
    {s \in UNION {[1..k -> keys \X vals] : k \in 0..n} :
        \A i, j \in 1..Len(s) : i # j => s[i][1] # s[j][1]}

EligMinScores == RuleSeqs({"aggregate", "English", "Physics"}, {50000, 100000}, MaxRules)
EligMaxScores == RuleSeqs({"English", "Mathematics"}, {49996, 80000}, MaxRules)

\* Courses as load_universities leaves them, and one with neither mapping.
EligCourses ==
    {[name |-> "Law", min_scores |-> mn, max_scores |-> mx] :
        mn \in EligMinScores, mx \in EligMaxScores}
    \cup {[name |-> "Arts"]}

IdleFit == student = Idle /\ choices = Idle /\ universities = Idle /\ overrides = Idle
IdleRow == row = Idle
IdleApp == session = Idle /\ last_excel_path = Idle /\ disk_excel = Idle /\ response = Idle

InitEligible ==
    /\ pc = "call"
    /\ scores \in EligScoreSets
    /\ course \in EligCourses
    /\ result = Idle
    /\ IdleFit /\ IdleRow /\ IdleApp

CallIsEligible ==
    /\ pc = "call"
    /\ result' = is_eligible_for_course(scores, course)
    /\ pc' = "done"
    /\ UNCHANGED <<scores, course, student, choices, universities, overrides, row,
                   session, last_excel_path, disk_excel, response>>

NextEligible == CallIsEligible

SpecEligible == InitEligible /\ [][NextEligible]_vars

(***************************************************************************)
(* C4                                                                      *)
(***************************************************************************)
\* A student's score for a subject, an absent subject counting as 0.
ScoreOf(sc, subj) == IF subj \in DOMAIN sc THEN sc[subj] ELSE 0

\* The sum of the 13 fixed subjects' scores, rounded to two decimals.
AggregateOf(sc) ==
    Round2(ScoreOf(sc, "English") + ScoreOf(sc, "Mathematics")
           + ScoreOf(sc, "Additional Math") + ScoreOf(sc, "Physics")
           + ScoreOf(sc, "Chemistry") + ScoreOf(sc, "Biology") + ScoreOf(sc, "History")
           + ScoreOf(sc, "Geography") + ScoreOf(sc, "Civics") + ScoreOf(sc, "ICT")
           + ScoreOf(sc, "Accounting") + ScoreOf(sc, "Religion") + ScoreOf(sc, "Commerce"))

MinsOf(c) == IF "min_scores" \in DOMAIN c THEN c.min_scores ELSE <<>>
MaxsOf(c) == IF "max_scores" \in DOMAIN c THEN c.max_scores ELSE <<>>

AggregateMet(sc, c) ==
    \A i \in 1..Len(MinsOf(c)) :
        MinsOf(c)[i][1] = "aggregate" => AggregateOf(sc) >= MinsOf(c)[i][2]
MinimumsMet(sc, c) ==
    \A i \in 1..Len(MinsOf(c)) :
        MinsOf(c)[i][1] # "aggregate" => ScoreOf(sc, MinsOf(c)[i][1]) >= MinsOf(c)[i][2]
MaximumsMet(sc, c) ==
    \A i \in 1..Len(MaxsOf(c)) : ScoreOf(sc, MaxsOf(c)[i][1]) <= MaxsOf(c)[i][2]

\* C4: is_eligible_for_course returns true exactly when the aggregate minimum (if
\* any) is met, every subject minimum is met and no subject maximum is exceeded, an
\* absent subject counting as 0; so a course with no rules accepts every score set.
C4_EligibleIff ==
    pc = "done" =>
        /\ result = (AggregateMet(scores, course) /\ MinimumsMet(scores, course)
                        /\ MaximumsMet(scores, course))
        /\ (MinsOf(course) = <<>> /\ MaxsOf(course) = <<>> => result = TRUE)

\* One exceeded maximum refuses a student who meets every minimum (an aggregate
\* minimum among them), with a subject absent from the scores.
C4_Witness ==
    /\ pc = "done"
    /\ result = FALSE
    /\ AggregateMet(scores, course) /\ MinimumsMet(scores, course)
    /\ Len(MinsOf(course)) = 2
    /\ \E i \in 1..Len(MinsOf(course)) : MinsOf(course)[i][1] = "aggregate"
    /\ "Mathematics" \notin DOMAIN scores
    /\ ~MaximumsMet(scores, course)

(***************************************************************************)
(* Specification: one call of best_fit                                     *)
(***************************************************************************)
\* The most universities a catalog holds.
MaxUnis == 2

\* Catalog entries as universities.json gives them: names not yet trimmed, a course
\* that differs from another only by case, a nameless course, courses without
\* rules, a university without courses.
UniAlpha ==
    [name |-> " Alpha ",
     courses |-> <<[name |-> "Law", min_scores |-> << <<"aggregate", 100000>> >>],
                   [name |-> "Arts "]>>]
UniBeta ==
    [name |-> "Beta",
     courses |-> <<[name |-> "LAW", min_scores |-> << <<"English", 50000>> >>,
                    max_scores |-> << <<"Mathematics", 49996>> >>],
                   [name |-> "Medicine", min_scores |-> << <<"English", 85000>> >>]>>]
UniGamma == [name |-> "Gamma", courses |-> <<[min_scores |-> << <<"Mathematics", 50000>> >>]>>]
UniDelta == [name |-> "Delta"]
UniPool == {UniAlpha, UniBeta, UniGamma, UniDelta}

FitCatalogs == UNION {[1..k -> UniPool] : k \in 0..MaxUnis}

SubjectSet == {SUBJECTS[i] : i \in 1..Len(SUBJECTS)}

\* Score sets as _extract_scores builds them: every subject present.
FitScoreSets ==
    {[s \in SubjectSet |-> IF s = "English" THEN e ELSE IF s = "Mathematics" THEN m ELSE 0] :
        e \in {0, 50000, 85000}, m \in {0, 49996, 50000}}

\* Choice lists as _collect_choices builds them: at most three entries, no two equal
\* under _lower, None for a blank cell.
ChoiceNames == {"Law", "law", "Medicine", None}
FitChoices ==
    {s \in UNION {[1..k -> ChoiceNames] : k \in 0..3} :
        \A i, j \in 1..Len(s) : i # j => _lower(s[i]) # _lower(s[j])}

FitStudents == {[x \in {"Student ID"} |-> id] : id \in {" S1 ", "S2"}}

FitOverrides ==
    {<<>>,
     [x \in {"S1"} |-> [University |-> " Beta ", Course |-> "Medicine "]],
     [x \in {"S1"} |-> [Course |-> "Biology"]],
     [x \in {" S1 ", "S2"} |-> [University |-> "X University", Course |-> "\tLaw"]]}

InitBestFit ==
    /\ pc = "call"
    /\ universities \in {load_universities(data) : data \in FitCatalogs}
    /\ overrides \in FitOverrides
    /\ student \in FitStudents
    /\ scores \in FitScoreSets
    /\ choices \in FitChoices
    /\ course = Idle /\ result = Idle
    /\ IdleRow /\ IdleApp

CallBestFit ==
    /\ pc = "call"
    /\ result' = best_fit(universities, overrides, student, scores, choices)
    /\ pc' = "done"
    /\ UNCHANGED <<scores, course, student, choices, universities, overrides, row,
                   session, last_excel_path, disk_excel, response>>

NextBestFit == CallBestFit

SpecBestFit == InitBestFit /\ [][NextBestFit]_vars

(***************************************************************************)
(* C1, C2, C3                                                              *)
(***************************************************************************)
\* The student's trimmed Student ID, and whether the override map has it as a key.
TrimmedId == Strip(student["Student ID"])
HasOverride == TrimmedId \in DOMAIN overrides

\* Catalog positions <<university, course>>, and catalog order on them.
Positions ==
    {p \in (1..Len(universities)) \X (1..2) :
        /\ "courses" \in DOMAIN universities[p[1]]
        /\ p[2] <= Len(universities[p[1]].courses)}
CourseAt(p) == universities[p[1]].courses[p[2]]
Before(p, q) == p[1] < q[1] \/ (p[1] = q[1] /\ p[2] < q[2])
First(S) == CHOOSE p \in S : \A q \in S : q = p \/ Before(p, q)

\* A position passes the eligibility predicate for the student's scores.
Passes(p) ==
    /\ AggregateMet(scores, CourseAt(p))
    /\ MinimumsMet(scores, CourseAt(p))
    /\ MaximumsMet(scores, CourseAt(p))

\* Case-insensitive name match; a blank entry of the choice list is the empty name.
Fold(x) == ToLower(IF x = None THEN "" ELSE x)
Matches(ch, p) == Fold(ch) = Fold(CourseAt(p).name)

\* The eligible courses a choice names, and the choices that name one.
Hits(ch) == {p \in Positions : Matches(ch, p) /\ Passes(p)}
Fruitful == {i \in 1..Len(choices) : Hits(choices[i]) # {}}
EarliestFruitful == CHOOSE i \in Fruitful : \A j \in Fruitful : i <= j
AllPassing == {p \in Positions : Passes(p)}

ResultIs(p) ==
    /\ result.University = universities[p[1]].name
    /\ result.Course = CourseAt(p).name

\* C1: a student whose trimmed Student ID is a key of the override map gets the
\* entry's University and Course, trimmed, whatever the scores, the choices and the
\* catalog; the eligibility predicate is not consulted.
C1_OverrideWins ==
    (pc = "done" /\ HasOverride) =>
        LET ov == overrides[TrimmedId] IN
        /\ "University" \in DOMAIN ov => result.University = Strip(ov.University)
        /\ "Course" \in DOMAIN ov => result.Course = Strip(ov.Course)
        /\ result.consulted = <<>>

\* The override names a course of the catalog the student is not eligible for, and
\* its values carry surrounding whitespace.
C1_Witness ==
    /\ pc = "done" /\ HasOverride
    /\ "University" \in DOMAIN overrides[TrimmedId]
    /\ overrides[TrimmedId].Course # Strip(overrides[TrimmedId].Course)
    /\ TrimmedId # student["Student ID"]
    /\ \E p \in Positions : CourseAt(p).name = result.Course /\ ~Passes(p)
    /\ AllPassing # {}

\* C2: without an override, when some choice names an eligible course, the result
\* is the first eligible course, in catalog order, that the earliest such choice
\* names; only courses named by that choice or an earlier one are consulted, and
\* the last one consulted is the result.
C2_ChoicePriority ==
    (pc = "done" /\ ~HasOverride /\ Fruitful # {}) =>
        LET p == First(Hits(choices[EarliestFruitful])) IN
        /\ ResultIs(p)
        /\ result.consulted # <<>>
        /\ result.consulted[Len(result.consulted)] = p
        /\ \A k \in 1..Len(result.consulted) :
               \E j \in 1..EarliestFruitful : Matches(choices[j], result.consulted[k])

\* The first choice names a course the student does not pass and the second one
\* the catalog lacks; the third names two courses, the first of which the student
\* does not pass; the fallback would have given another course.
C2_Witness ==
    /\ pc = "done" /\ ~HasOverride /\ Fruitful # {}
    /\ EarliestFruitful = 3
    /\ \E p \in Positions : Matches(choices[1], p) /\ ~Passes(p)
    /\ \A p \in Positions : ~Matches(choices[2], p)
    /\ First(AllPassing) # First(Hits(choices[EarliestFruitful]))
    /\ \E q \in Positions :
           /\ Matches(choices[3], q) /\ ~Passes(q)
           /\ Before(q, First(Hits(choices[3])))

\* C3: without an override, when no choice names an eligible course, the result is
\* the first course of the catalog that passes the eligibility predicate, whatever
\* the choices; and the result is ("Not Allocated", "N/A") exactly when no course of
\* the catalog passes.
C3_Fallback ==
    (pc = "done" /\ ~HasOverride) =>
        /\ (Fruitful = {} /\ AllPassing # {}) => ResultIs(First(AllPassing))
        /\ (result.University = "Not Allocated" /\ result.Course = "N/A")
               <=> AllPassing = {}

\* The student's choices name courses of the catalog, none of which the student
\* passes, and the fallback finds a course no choice names.
C3_Witness ==
    /\ pc = "done" /\ ~HasOverride
    /\ Len(choices) = 2
    /\ \A i \in 1..Len(choices) :
           choices[i] # None /\ \E p \in Positions : Matches(choices[i], p)
    /\ Fruitful = {}
    /\ AllPassing # {}
    /\ ResultIs(First(AllPassing))
    /\ First(AllPassing) # <<1, 1>>

(***************************************************************************)
(* Specification: one roster row through allocate's loop                   *)
(***************************************************************************)
\* How many of the subject columns vary in the rows tried.
VaryingSubjects == 2

\* A column the roster does not have.
Absent == [t |-> "absent", s |-> "", n |-> 0]
ScoreCells == {Absent, NaN, Num(49996), Num(50000), Str(" 49.996"), Str("abs.")}
ChoiceCells == {Absent, NaN, Str("  "), Str("Law"), Str("law "), Str("Medicine")}

RowIdentity ==
    [k \in Range(IDENTITY) |->
        IF k = "Student ID" THEN Str(" S1 ")
        ELSE IF k = "FirstName" THEN Str("Ada ")
        ELSE IF k = "LastName" THEN Str("Obi")
        ELSE IF k = "Gender" THEN Str("F")
        ELSE Str("A")]

\* The row whose columns are those of cells that are not Absent.
Present(cells) == [c \in {k \in DOMAIN cells : cells[k] # Absent} |-> cells[c]]

RowInputs ==
    {Present(sc) @@ Present(ch) @@ RowIdentity :
        sc \in [Range(SubSeq(SUBJECTS, 1, VaryingSubjects)) -> ScoreCells],
        ch \in [Range(CHOICE_COLUMNS) -> ChoiceCells]}

\* One university: Law asks for an aggregate of 100, Arts for nothing.
RowCatalog == <<UniAlpha>>

InitRow ==
    /\ pc = "call"
    /\ row \in RowInputs
    /\ universities = load_universities(RowCatalog)
    /\ overrides = <<>>
    /\ scores = Idle /\ choices = Idle /\ student = Idle /\ course = Idle /\ result = Idle
    /\ IdleApp

AllocateRow ==
    /\ pc = "call"
    /\ scores' = _extract_scores(fill_columns(row))
    /\ choices' = _collect_choices(fill_columns(row))
    /\ result' = alloc_row(universities, overrides, fill_columns(row))
    /\ pc' = "done"
    /\ UNCHANGED <<course, student, universities, overrides, row,
                   session, last_excel_path, disk_excel, response>>

NextRow == AllocateRow

SpecRow == InitRow /\ [][NextRow]_vars

(***************************************************************************)
(* C6, C9                                                                  *)
(***************************************************************************)
\* The text of choice slot i, "" for a missing, empty or whitespace-only slot.
SlotText(i) ==
    LET c == CHOICE_COLUMNS[i] IN
    IF c \in DOMAIN row /\ row[c].t = "str" THEN Strip(row[c].s) ELSE ""

\* The slots that survive: not blank, and no earlier slot with the same text up to
\* case.
Survivors ==
    {i \in 1..3 : /\ SlotText(i) # ""
                  /\ \A j \in 1..(i - 1) : ToLower(SlotText(j)) # ToLower(SlotText(i))}

RECURSIVE InOrder(_)
InOrder(S) ==
    IF S = {} THEN <<>>
    ELSE LET m == CHOOSE i \in S : \A j \in S : i <= j
         IN  <<SlotText(m)>> \o InOrder(S \ {m})

\* C6: the normalized choice list holds no blank entry; it is the non-blank slots,
\* trimmed, deduplicated case-insensitively keeping the first occurrence; and the
\* Choice 1..3 cells of the result row hold that list left-compacted, padded with "".
C6_ChoicesNormalized ==
    pc = "done" =>
        /\ \A i \in 1..Len(choices) : choices[i] # None /\ choices[i] # ""
        /\ choices = InOrder(Survivors)
        /\ \A i \in 1..3 :
               result[CHOICE_COLUMNS[i]] = IF i <= Len(choices) THEN choices[i] ELSE ""
        /\ \A i \in 1..2 :
               result[CHOICE_COLUMNS[i]] = "" => result[CHOICE_COLUMNS[i + 1]] = ""

\* The number a subject's cell stands for: 0 for a missing column, an empty cell or
\* a text that is no numeral.
Numeric(subj) ==
    IF subj \notin DOMAIN row THEN 0
    ELSE IF row[subj].t = "num" THEN row[subj].n
    ELSE IF row[subj].t = "str" /\ ParseFloat(row[subj].s).ok THEN ParseFloat(row[subj].s).v
    ELSE 0

RowSum ==
    result["English"] + result["Mathematics"] + result["Additional Math"]
    + result["Physics"] + result["Chemistry"] + result["Biology"] + result["History"]
    + result["Geography"] + result["Civics"] + result["ICT"] + result["Accounting"]
    + result["Religion"] + result["Commerce"]

\* C9: the row's Aggregate is the sum of the 13 subject scores stored in the row,
\* rounded to two decimals, a missing, blank or non-numeric subject being stored as
\* 0; and the eligibility predicate sees that same aggregate: the course whose only
\* rule is an aggregate minimum is given exactly when the row's Aggregate reaches it.
C9_AggregateIsRowSum ==
    pc = "done" =>
        /\ \A subj \in Range(SUBJECTS) : result[subj] = Numeric(subj)
        /\ result["Aggregate"] = Round2(RowSum)
        /\ result["Course"] = "Law" <=> result["Aggregate"] >= 100000

\* A numeral given as text counts, rounding changes the sum, and the rounded
\* aggregate is what reaches the minimum.
C9_Witness ==
    /\ pc = "done"
    /\ "English" \in DOMAIN row /\ row["English"].t = "str" /\ result["English"] = 49996
    /\ RowSum < 100000
    /\ result["Aggregate"] = 100000
    /\ result["Course"] = "Law"

(***************************************************************************)
(* Specification: the application (api.py)                                 *)
(***************************************************************************)
\* The most student rows an uploaded roster holds.
MaxRows == 2

EXCEL_PATH == "data/uploaded_students.xlsx"

\* Uploads: rosters under aliased column names, a roster without Gender and
\* Section, and a file that is no workbook.
AppColumns == <<"student id", " First Name", "LASTNAME", "Gender", "section",
                "english", "Mathematics", "choice 1", "Choice2">>
AppRowPool ==
    {<<Str("S1"), Str("Ada "), Str("Obi"), Str("F"), Str("A"),
       Num(85000), Num(40000), Str("History"), Str("Law")>>,
     <<Str(" S2 "), Str("Ben"), Str("Eze"), Str("M"), Str("B"),
       Num(50000), Str("50.004"), Str("law"), NaN>>}
Uploads ==
    {Workbook(AppColumns, rows) : rows \in UNION {[1..k -> AppRowPool] : k \in 0..MaxRows}}
    \cup {Workbook(<<"Student ID", "firstname", "last name", "English">>,
                   << <<Str("S1"), Str("Ada"), Str("Obi"), Num(85000)>> >>),
          NotAWorkbook}

\* universities.json as a request finds it.
CatalogFiles == {Catalog(<<UniAlpha, UniBeta>>), Malformed}

OverrideForms ==
    {[student_id |-> id, university |-> f[1], course |-> f[2]] :
        id \in {"S1 ", "S2"}, f \in {<<" X University", "Biology ">>, <<"Beta", "Medicine">>}}

Response(handler, status, raised, rows, uni_json) ==
    [handler |-> handler, status |-> status, raised |-> raised, rows |-> rows,
     uni_json |-> uni_json]

InitApp ==
    /\ session = NoSession
    /\ last_excel_path = None
    /\ disk_excel = NotAWorkbook
    /\ response = Response("", 0, NoError, <<>>, Malformed)
    /\ pc = Idle /\ scores = Idle /\ course = Idle /\ result = Idle
    /\ IdleFit /\ IdleRow

\* session = AllocationSession(); session.allocate(excel_path, ..., session.overrides):
\* the call on a fresh session reads nothing of the application's state, so it is
\* tabulated once per upload and catalog.
FreshAllocate ==
    [file \in Uploads, uni_json \in CatalogFiles |->
        allocate(NewSession, file, uni_json, NewSession.overrides)]

\* POST /allocate with an uploaded file, universities.json holding uni_json.
allocate_students(file, uni_json) ==
    /\ disk_excel' = file
    /\ \E call \in {FreshAllocate[file, uni_json]} :
           IF call.raised # NoError
           THEN /\ response' = Response("allocate", 500, call.raised, call.rows, uni_json)
                /\ UNCHANGED <<session, last_excel_path>>
           ELSE /\ session' = call.self
                /\ last_excel_path' = EXCEL_PATH
                /\ response' = Response("allocate", 200, NoError, call.rows, uni_json)
    /\ UNCHANGED <<pc, scores, course, student, choices, universities, overrides,
                   row, result>>

\* POST /override with a form, universities.json holding uni_json.
override_allocation(form, uni_json) ==
    /\ IF last_excel_path = None
       THEN /\ response' = Response("override", 400, NoError, <<>>, Malformed)
            /\ UNCHANGED session
       ELSE \E local \in {IF session.exists THEN session ELSE NewSession} :
            \E sid \in {Strip(form.student_id)} :
            \E entry \in {[University |-> Strip(form.university),
                            Course |-> Strip(form.course)]} :
            \E ovs \in {[k \in DOMAIN local.overrides \cup {sid} |->
                             IF k = sid THEN entry ELSE local.overrides[k]]} :
            \E call \in {allocate(local, disk_excel, uni_json, ovs)} :
                IF call.raised # NoError
                THEN /\ response' = Response("override", 500, call.raised, call.rows, uni_json)
                     /\ session' = IF session.exists THEN call.self ELSE session
                ELSE /\ session' = call.self
                     /\ response' = Response("override", 200, NoError, call.rows, uni_json)
    /\ UNCHANGED <<last_excel_path, disk_excel>>
    /\ UNCHANGED <<pc, scores, course, student, choices, universities, overrides,
                   row, result>>

NextApp ==
    \/ \E file \in Uploads, uni_json \in CatalogFiles : allocate_students(file, uni_json)
    \/ \E form \in OverrideForms, uni_json \in CatalogFiles :
           override_allocation(form, uni_json)

SpecApp == InitApp /\ [][NextApp]_vars

(***************************************************************************)
(* C5, C7, C8, C10                                                         *)
(***************************************************************************)
LastRows == session.allocations_df.rows

\* The result row agrees with the session's override entry for its student.
Honours(r, ovs) ==
    r["Student ID"] \in DOMAIN ovs =>
        /\ r["University"] = Strip(ovs[r["Student ID"]].University)
        /\ r["Course"] = Strip(ovs[r["Student ID"]].Course)

\* C5: whatever requests were made, successful or failed, every row of the last
\* result set whose Student ID has an entry in the session's override map carries
\* that entry's University and Course.
C5_OverridesAgreeWithResults ==
    session.exists => \A i \in 1..Len(LastRows) : Honours(LastRows[i], session.overrides)

\* The canonical name of a roster column, and the required fields a roster lacks.
Canonical(col) ==
    IF ToLower(Strip(col)) \in DOMAIN COLUMN_ALIASES
    THEN COLUMN_ALIASES[ToLower(Strip(col))]
    ELSE col
RequiredAbsent(file) ==
    {"Student ID", "FirstName", "LastName", "Gender", "Section"}
        \ {Canonical(file.columns[k]) : k \in 1..Len(file.columns)}

\* C7: a request whose allocate call meets a catalog that does not load, or a
\* roster that lacks required fields, ends in one error (for missing fields,
\* naming all of them), returns no row, and leaves the session's last result set
\* as it was before the call.
C7_AllOrNothing ==
    [][(response'.status \in {200, 500}
            /\ (\/ ~response'.uni_json.loads
                \/ (disk_excel'.readable /\ RequiredAbsent(disk_excel') # {})))
        => /\ response'.status = 500
           /\ response'.raised.kind # ""
           /\ (response'.uni_json.loads /\ disk_excel'.readable)
                  => response'.raised = Error("ValueError", RequiredAbsent(disk_excel'))
           /\ response'.rows = <<>>
           /\ session'.allocations_df = session.allocations_df]_vars

\* An override request fails on a roster that lacks two required fields, in a
\* session that holds the result of an earlier allocation.
C7_Witness ==
    /\ response.handler = "override" /\ response.status = 500
    /\ response.raised.kind = "ValueError"
    /\ Cardinality(response.raised.missing) = 2
    /\ session.exists /\ session.allocations_df.frame /\ Len(LastRows) > 0

\* The text of a required field in row i of the roster on disk.
FieldOf(i, field) ==
    LET k == CHOOSE j \in 1..Len(disk_excel.columns) :
                 Canonical(disk_excel.columns[j]) = field
    IN  disk_excel.rows[i][k].s

\* The result of allocating row i of the roster on disk alone.
Alone(i) ==
    allocate(NewSession, Workbook(disk_excel.columns, <<disk_excel.rows[i]>>),
             response.uni_json, session.overrides).rows[1]

\* C8: after a successful allocation the result set has one row per student of the
\* roster, in roster order, each carrying its student's identity, and each equal to
\* what that student would get as the only student of the roster.
C8_RowPerStudent ==
    response.status = 200 =>
        /\ session.allocations_df.frame
        /\ response.rows = LastRows
        /\ Len(LastRows) = Len(disk_excel.rows)
        /\ \A i \in 1..Len(LastRows) :
               /\ \A f \in Range(IDENTITY) : LastRows[i][f] = Strip(FieldOf(i, f))
               /\ LastRows[i] = Alone(i)

\* Two different students are given the same course, which is not the sentinel.
C8_Witness ==
    /\ response.status = 200
    /\ Len(LastRows) = 2
    /\ LastRows[1]["Student ID"] # LastRows[2]["Student ID"]
    /\ LastRows[1]["University"] = LastRows[2]["University"]
    /\ LastRows[1]["Course"] = LastRows[2]["Course"]
    /\ LastRows[1]["Course"] # "N/A"
    /\ session.overrides = <<>>

\* C10: the overrides of a session whose last request succeeded stay: after any
\* further request the session's override map still has an entry for each of those
\* students, and if that request succeeded its result honours the map.
C10_OverridesPersist ==
    [][(session.exists /\ response.status = 200)
        => /\ session'.exists
           /\ DOMAIN session.overrides \subseteq DOMAIN session'.overrides
           /\ response'.status = 200
                 => \A i \in 1..Len(session'.allocations_df.rows) :
                        Honours(session'.allocations_df.rows[i], session'.overrides)]_vars

=============================================================================
